---- MODULE Spec2Model ----
(***************************************************************************)
(* A model of commit-lint (src/main.go): the rule engine LintSubject, the  *)
(* configuration loader (NewLinter, readEnvList, getEnvBool), the history  *)
(* provider GetGitCommits and the driver main.                             *)
(*                                                                         *)
(* A Go string is a sequence of one-character strings, its runes; ByteLen  *)
(* gives its length in bytes, which is what Go's len counts.  A Go slice   *)
(* is a record [isNil, elems]: the code tells a nil slice from an empty    *)
(* one (main.go:61, 69).  Messages are built as TLA+ strings, character    *)
(* for character as fmt.Sprintf does.                                      *)
(***************************************************************************)
EXTENDS Integers, Sequences, FiniteSets, TLC

VARIABLES
    pc,         \* position of the running call or of main
    call,       \* the arguments of the call under way (LintSubject, readEnvList, NewLinter)
    result,     \* what the call returned
    env,        \* the process environment read by main
    args,       \* os.Args
    host,       \* the machine main runs on: its git and its repository
    linter,     \* main's linter (its Config)
    queries,    \* the cmd.Output() calls made so far, in order
    gitErr,     \* the text of GetGitCommits' returned error (NoErr: nil)
    commits,    \* main's commits slice (elems: <<sha, subject>> pairs)
    idx,        \* number of commits main's loop has handled
    linted,     \* the subjects handed to LintSubject by main, in order
    errorCount, \* main's errorCount
    stdout,     \* lines printed to standard output
    stderr,     \* lines printed to standard error
    exitCode    \* -1 while running, else the process exit code

vars == <<pc, call, result, env, args, host, linter, queries, gitErr, commits, idx,
          linted, errorCount, stdout, stderr, exitCode>>

-----------------------------------------------------------------------------
(* Strings and slices                                                      *)

LowerLetters == {"a","b","c","d","e","f","g","h","i","j","k","l","m",
                 "n","o","p","q","r","s","t","u","v","w","x","y","z"}
UpperLetters == {"A","B","C","D","E","F","G","H","I","J","K","L","M",
                 "N","O","P","Q","R","S","T","U","V","W","X","Y","Z"}
Digits == {"0","1","2","3","4","5","6","7","8","9"}

\* The vertical tab (byte 0x0B), U+0085 (next line) and U+00A0 (no-break
\* space), written as the characters themselves.
VT == ""
NEL == ""
NBSP == " "

\* unicode.IsSpace, which strings.TrimSpace trims by: \t, \n, \v, \f, \r,
\* space, U+0085 and U+00A0.  (It also holds of U+1680, U+2000-U+200A,
\* U+2028, U+2029, U+202F, U+205F and U+3000, characters no text of the
\* model contains.)
SpaceChars == {" ", "\t", "\n", VT, "\f", "\r", NEL, NBSP}

\* The bytes of a rune in UTF-8: one for ASCII, two for U+0085 and U+00A0,
\* the only runes above U+007F in the model's texts.
RuneLen(c) == IF c \in {NEL, NBSP} THEN 2 ELSE 1

\* len(s): the number of bytes of s.
RECURSIVE ByteLen(_)
ByteLen(s) == IF s = <<>> THEN 0 ELSE RuneLen(Head(s)) + ByteLen(Tail(s))

\* The byte 0xC2 on its own, as one character: the first byte of U+0085 and
\* of U+00A0 (C2 85, C2 A0), what is left of the rune when a cut falls
\* between its two bytes.
LeadByte == "\\xc2"

\* s[:n], the first n bytes of s (n no more than len(s)).
RECURSIVE BytePrefix(_, _)
BytePrefix(s, n) ==
    IF n <= 0 \/ s = <<>> THEN <<>>
    ELSE IF RuneLen(Head(s)) <= n
    THEN <<Head(s)>> \o BytePrefix(Tail(s), n - RuneLen(Head(s)))
    ELSE <<LeadByte>>

NilSlice == [isNil |-> TRUE, elems |-> <<>>]
Slice(s) == [isNil |-> FALSE, elems |-> s]
append(sl, x) == Slice(Append(sl.elems, x))

RECURSIVE Str(_)
Str(s) == IF s = <<>> THEN "" ELSE Head(s) \o Str(Tail(s))

RECURSIVE TrimLeft(_)
TrimLeft(s) ==
    IF s # <<>> /\ Head(s) \in SpaceChars THEN TrimLeft(Tail(s)) ELSE s

RECURSIVE TrimRight(_)
TrimRight(s) ==
    IF s # <<>> /\ s[Len(s)] \in SpaceChars
    THEN TrimRight(SubSeq(s, 1, Len(s) - 1))
    ELSE s

TrimSpace(s) == TrimRight(TrimLeft(s))

HasSuffix(s, suffix) ==
    /\ Len(s) >= Len(suffix)
    /\ SubSeq(s, Len(s) - Len(suffix) + 1, Len(s)) = suffix

HasPrefix(s, prefix) ==
    /\ Len(s) >= Len(prefix)
    /\ SubSeq(s, 1, Len(prefix)) = prefix

\* strings.Join of a slice of strings, as a TLA+ string.
RECURSIVE Join(_, _)
Join(elems, sep) ==
    IF elems = <<>> THEN ""
    ELSE IF Len(elems) = 1 THEN Str(elems[1])
    ELSE Str(elems[1]) \o sep \o Join(Tail(elems), sep)

\* main.go:122-129
contains(slice, item) ==
    \E i \in 1..Len(slice.elems) : slice.elems[i] = item

-----------------------------------------------------------------------------
(* The subject grammar, as the regexp of main.go:51 matches it: anchored   *)
(* at both ends; group 1 the type (one or more of a-z); an optional        *)
(* parenthesised group 2, the scope (one of a-z0-9, then any of a-z0-9./-);*)
(* an optional group 3, the "!"; a colon and one space; group 4 the rest,  *)
(* any characters but a newline.                                           *)

ScopeFirst == LowerLetters \cup Digits
ScopeRest == LowerLetters \cup Digits \cup {".", "/", "-"}

\* Number of consecutive characters of s from position i on that are in class.
RECURSIVE Span(_, _, _)
Span(s, i, class) ==
    IF i <= Len(s) /\ s[i] \in class THEN 1 + Span(s, i + 1, class) ELSE 0

At(s, i) == IF i >= 1 /\ i <= Len(s) THEN s[i] ELSE ""

NoMatch == [ok |-> FALSE, ctype |-> <<>>, scope |-> <<>>, bang |-> <<>>, rest |-> <<>>]

\* Variant: the tail without the space the pattern requires after the colon.
MatchTailNoSpace(s, ctype, scope, i) ==
    LET j == IF At(s, i) = "!" THEN i + 1 ELSE i
        rest == SubSeq(s, j + 1, Len(s))
    IN  IF At(s, j) = ":" /\ \A k \in 1..Len(rest) : rest[k] # "\n"
        THEN [ok |-> TRUE, ctype |-> ctype, scope |-> scope,
              bang |-> SubSeq(s, i, j - 1), rest |-> rest]
        ELSE NoMatch

\* The tail of the pattern from position i: groups 3 and 4.
MatchTail(s, ctype, scope, i) ==
    LET j == IF At(s, i) = "!" THEN i + 1 ELSE i
        rest == SubSeq(s, j + 2, Len(s))
    IN  IF At(s, j) = ":" /\ At(s, j + 1) = " "
           /\ \A k \in 1..Len(rest) : rest[k] # "\n"
        THEN [ok |-> TRUE, ctype |-> ctype, scope |-> scope,
              bang |-> SubSeq(s, i, j - 1), rest |-> rest]
        ELSE NoMatch

\* re.FindStringSubmatch(subject): matches[1..4], or no match.
FindStringSubmatch(s) ==
    LET t == Span(s, 1, LowerLetters)
        ctype == SubSeq(s, 1, t)
    IN  IF t = 0 THEN NoMatch
        ELSE IF At(s, t + 1) = "("
        THEN LET n == IF At(s, t + 2) \in ScopeFirst
                      THEN 1 + Span(s, t + 3, ScopeRest) ELSE 0
             IN  IF n > 0 /\ At(s, t + 2 + n) = ")"
                 THEN MatchTail(s, ctype, SubSeq(s, t + 2, t + 1 + n), t + 3 + n)
                 ELSE NoMatch
        ELSE MatchTail(s, ctype, <<>>, t + 1)

-----------------------------------------------------------------------------
(* LintSubject (main.go:49-93)                                             *)

FormatMsg ==
    "format must be 'type(scope)?: subject' with lowercase type and a space after colon"
ScopeMissingMsg == "scope is required but missing"
EmptyMsg == "subject must not be empty"
PeriodMsg == "subject must not end with a period"
CapitalMsg == "subject should start lowercase (imperative mood)"
TypeMsg(ctype, allowed) ==
    "type '" \o Str(ctype) \o "' is not allowed. Allowed: " \o Join(allowed.elems, ", ")
ScopeMsg(scope, allowed) ==
    "scope '" \o Str(scope) \o "' is not in allowed list: " \o Join(allowed.elems, ", ")
TooLongMsg(n, max) ==
    "subject too long (" \o ToString(n) \o " > " \o ToString(max) \o ")"

\* Variant: the description left untrimmed.
DescriptionRaw(m) == m.rest

\* main.go:59: the description every later check reads.
Description(m) == TrimSpace(m.rest)

\* main.go:61-63
CheckType(cfg, ctype, errors) ==
    IF ~cfg.AllowedTypes.isNil /\ ~contains(cfg.AllowedTypes, ctype)
    THEN append(errors, TypeMsg(ctype, cfg.AllowedTypes))
    ELSE errors

\* main.go:65-67
CheckScopeRequired(cfg, ctype, scope, errors) ==
    IF cfg.RequireScope /\ scope = <<>> /\ ~contains(cfg.RequireScopeExcept, ctype)
    THEN append(errors, ScopeMissingMsg)
    ELSE errors

\* main.go:69-71
CheckScopeAllowed(cfg, scope, errors) ==
    IF scope # <<>> /\ ~cfg.AllowedScopes.isNil /\ ~contains(cfg.AllowedScopes, scope)
    THEN append(errors, ScopeMsg(scope, cfg.AllowedScopes))
    ELSE errors

\* main.go:73-75
CheckEmpty(sub, errors) ==
    IF TrimSpace(sub) = <<>> THEN append(errors, EmptyMsg) ELSE errors

\* main.go:77-79
CheckLength(cfg, sub, errors) ==
    IF ByteLen(sub) > cfg.MaxSubjectLength
    THEN append(errors, TooLongMsg(ByteLen(sub), cfg.MaxSubjectLength))
    ELSE errors

\* Variant: the period message put first instead of appended.
CheckPeriodFirst(sub, errors) ==
    IF HasSuffix(sub, <<".">>) THEN Slice(<<PeriodMsg>> \o errors.elems) ELSE errors

\* main.go:81-83
CheckPeriod(sub, errors) ==
    IF HasSuffix(sub, <<".">>) THEN append(errors, PeriodMsg) ELSE errors

\* main.go:85-87
CheckCapital(cfg, sub, errors) ==
    IF ~cfg.AllowCapitalSubject /\ Len(sub) > 0 /\ sub[1] \in UpperLetters
    THEN append(errors, CapitalMsg)
    ELSE errors

\* main.go:59-93: the checks after a successful match, in order.
RunChecks(cfg, m) ==
    LET sub == Description(m)
        e1 == CheckType(cfg, m.ctype, NilSlice)
        e2 == CheckScopeRequired(cfg, m.ctype, m.scope, e1)
        e3 == CheckScopeAllowed(cfg, m.scope, e2)
        e4 == CheckEmpty(sub, e3)
        e5 == CheckLength(cfg, sub, e4)
        e6 == CheckPeriod(sub, e5)
        e7 == CheckCapital(cfg, sub, e6)
    IN  IF Len(e7.elems) = 0 THEN NilSlice ELSE e7

LintSubject(cfg, subject) ==
    LET m == FindStringSubmatch(subject)
    IN  IF ~m.ok THEN append(NilSlice, FormatMsg) ELSE RunChecks(cfg, m)

-----------------------------------------------------------------------------
(* Inputs of the direct calls                                              *)

MaxLen == 3     \* longest subject drawn freely from SubjectAlphabet
MaxDesc == 3    \* longest description put after a head

SeqsUpTo(S, n) == UNION { [1..k -> S] : k \in 0..n }

SubjectAlphabet == {"a", "A", ":", " ", "("}
DescAlphabet == {"a", "A", " ", "."}

\* Subjects of the merge-commit shapes (part_000:66-83, spec 4.1).
MergeSubjects ==
    { <<"M","e","r","g","e"," ","p","u","l","l"," ","r","e","q","u","e","s","t"," ","#","1","2","3"," ","f","r","o","m"," ","f","e","a","t","u","r","e","/","b","r","a","n","c","h">>,
      <<"M","e","r","g","e"," ","b","r","a","n","c","h"," ","'","f","e","a","t","u","r","e","/","f","o","o","'">>,
      <<"M","e","r","g","e"," ","b","r","a","n","c","h"," ","'","d","e","v","'"," ","i","n","t","o"," ","m","a","i","n">>,
      <<"M","e","r","g","e"," ","9","d","7","b","7","c","9"," ","i","n","t","o"," ","1","5","a","0","0","c","6">> }

\* The other subjects of TestLintSubject (part_000:35-132).
TestSubjects ==
    { <<"f","e","a","t",":"," ","a","d","d"," ","n","e","w"," ","f","e","a","t","u","r","e">>,
      <<"f","i","x","(","a","p","i",")",":"," ","c","o","r","r","e","c","t"," ","a"," ","b","u","g">>,
      <<"r","e","f","a","c","t","o","r","(","p","a","r","s","e","r",")","!",":"," ","s","i","m","p","l","i","f","y"," ","t","h","e"," ","l","o","g","i","c">>,
      <<"d","o","c","s",":"," ","A","d","d"," ","d","o","c","u","m","e","n","t","a","t","i","o","n"," ","f","o","r"," ","A","P","I">>,
      <<"t","e","s","t","(","a","u","t","h",")",":"," ","a","d","d"," ","m","o","r","e"," ","t","e","s","t","s">>,
      <<"m","i","s","s","i","n","g"," ","c","o","l","o","n">>,
      <<"u","n","k","n","o","w","n",":"," ","s","o","m","e"," ","m","e","s","s","a","g","e">>,
      <<"f","e","a","t",":"," ","m","i","s","s","i","n","g"," ","s","c","o","p","e">>,
      <<"f","e","a","t","(","i","n","v","a","l","i","d",")",":"," ","s","c","o","p","e"," ","n","o","t"," ","a","l","l","o","w","e","d">>,
      <<"f","i","x",":"," ","t","h","i","s"," ","s","u","b","j","e","c","t"," ","i","s"," ","d","e","f","i","n","i","t","e","l","y"," ","w","a","y"," ","t","o","o"," ","l","o","n","g"," ","f","o","r"," ","t","h","e"," ","l","i","n","t","e","r"," ","t","o"," ","a","c","c","e","p","t">>,
      <<"d","o","c","s",":"," ","a","d","d"," ","s","o","m","e"," ","d","o","c","u","m","e","n","t","a","t","i","o","n",".">>,
      <<"s","t","y","l","e",":"," ","F","o","r","m","a","t"," ","t","h","e"," ","c","o","d","e">>,
      <<"c","h","o","r","e",":"," ">> }

\* Subjects around the edges of the grammar and of the trimming.
OddSubjects ==
    { <<"a",":","\t","x">>,
      <<"a",":"," ","x","\n","y">>,
      <<"a",":"," ","\t">>,
      <<"a",":"," ","x",".","\t">>,
      <<"a",":"," ","\t","X">>,
      <<"\t","a",":"," ","x">>,
      <<"a",":"," ","x","\n">>,
      <<"a","(","s",".","t","/","u","-","1",")",":"," ","x">>,
      <<"a","(","1",")","!",":"," ","x">>,
      <<"a","(","s",")","!",":","x">>,
      <<"a","!","!",":"," ","x">>,
      <<"a","(","s",")","(","s",")",":"," ","x">>,
      <<"a","(","s",")",")",":"," ","x">>,
      <<"f","e","a","t","(","a","p","i",")",":"," "," ","F","i","x"," ","i","t","."," ">>,
      <<"a",":"," ",VT,"X">>,
      <<"a",":"," ",VT>>,
      <<"a",":"," ","x",".",VT,"\f","\r">>,
      <<"a",":"," ",NEL,"X",NBSP>>,
      <<"a",":"," ","x",NBSP,"y">>,
      <<VT,"a",":"," ","x">> }

\* Heads that match the grammar up to the colon.
GoodHeads ==
    { <<"a">>,
      <<"c","!">>,
      <<"a","(","s",")">>,
      <<"c","(","x",")","!">> }

\* Heads that do not.
BadHeads ==
    { <<"A">>,
      <<"a","(",")">>,
      <<"a","(","S",")">>,
      <<"a","(",".","s",")">>,
      <<"a"," ","(","s",")">>,
      <<"a","(","s">>,
      <<"a","(","s",")","x">>,
      <<"1">>,
      <<"a","!","(","s",")">>,
      <<>> }

Subjects ==
    SeqsUpTo(SubjectAlphabet, MaxLen)
    \cup { h \o <<":", " ">> \o d : h \in GoodHeads, d \in SeqsUpTo(DescAlphabet, MaxDesc) }
    \cup { h \o <<":", " ">> \o d : h \in BadHeads, d \in {<<>>, <<"x">>, <<"X", ".">>} }
    \cup MergeSubjects \cup TestSubjects \cup OddSubjects

StringLists == { NilSlice, Slice(<<>>), Slice(<<<<"a">>, <<"b">>>>) }
ScopeLists == { NilSlice, Slice(<<>>), Slice(<<<<"s">>, <<"t">>>>) }
ExceptLists == { NilSlice, Slice(<<<<"a">>>>) }
MaxLengths == {-1, 2, 72}

\* Config (main.go:15-22)
Configs ==
    [ AllowedTypes : StringLists, AllowedScopes : ScopeLists,
      RequireScope : BOOLEAN, RequireScopeExcept : ExceptLists,
      AllowCapitalSubject : BOOLEAN, MaxSubjectLength : MaxLengths ]

NoCall == [op |-> "none"]
NoErr == "<nil>"    \* a nil error
NoHost == [ git |-> <<>>, history |-> <<>> ]
NoConfig ==
    [ AllowedTypes |-> NilSlice, AllowedScopes |-> NilSlice, RequireScope |-> FALSE,
      RequireScopeExcept |-> NilSlice, AllowCapitalSubject |-> FALSE,
      MaxSubjectLength |-> 0 ]

\* The state before anything has run.
Blank ==
    /\ call = NoCall
    /\ result = NilSlice
    /\ env = <<>>
    /\ args = <<>>
    /\ host = NoHost
    /\ linter = NoConfig
    /\ queries = <<>>
    /\ gitErr = NoErr
    /\ commits = NilSlice
    /\ idx = 0
    /\ linted = <<>>
    /\ errorCount = 0
    /\ stdout = <<>>
    /\ stderr = <<>>
    /\ exitCode = -1

mainVars == <<env, args, host, linter, queries, gitErr, commits, idx, linted,
              errorCount, stdout, stderr, exitCode>>

-----------------------------------------------------------------------------
(* SpecLint: LintSubject called directly, on any subject and any Config    *)

InitLint == pc = "lint_idle" /\ Blank

LintSubjectCall ==
    /\ pc = "lint_idle"
    /\ \E cfg \in Configs, subject \in Subjects :
         /\ call' = [op |-> "LintSubject", cfg |-> cfg, subject |-> subject]
         /\ result' = LintSubject(cfg, subject)
    /\ pc' = "lint_returned"
    /\ UNCHANGED mainVars

NextLint == LintSubjectCall

SpecLint == InitLint /\ [][NextLint]_vars

Returned == pc = "lint_returned"

-----------------------------------------------------------------------------
(* The configuration loader (main.go:30-46, 95-120)                        *)

\* strings.Split(s, ","): the pieces between the commas.
RECURSIVE Split(_, _)
Split(s, sep) ==
    LET n == Span(s, 1, { c \in {At(s, k) : k \in 1..Len(s)} : c # sep })
    IN  IF n = Len(s) THEN <<s>>
        ELSE <<SubSeq(s, 1, n)>> \o Split(SubSeq(s, n + 2, Len(s)), sep)

\* main.go:104-110: the trimmed, non-empty pieces, in order.
RECURSIVE TrimmedNonEmpty(_)
TrimmedNonEmpty(parts) ==
    IF parts = <<>> THEN <<>>
    ELSE LET trimmed == TrimSpace(Head(parts))
         IN  IF trimmed # <<>> THEN <<trimmed>> \o TrimmedNonEmpty(Tail(parts))
             ELSE TrimmedNonEmpty(Tail(parts))

\* readEnvList(name, defaultValue), value being os.Getenv(name).
readEnvList(value, defaultValue) ==
    LET raw == IF TrimSpace(value) = <<>> THEN defaultValue ELSE value
    IN  IF TrimSpace(raw) = <<>> THEN NilSlice
        ELSE Slice(TrimmedNonEmpty(Split(raw, ",")))

UpperSeq == <<"A","B","C","D","E","F","G","H","I","J","K","L","M",
              "N","O","P","Q","R","S","T","U","V","W","X","Y","Z">>
LowerSeq == <<"a","b","c","d","e","f","g","h","i","j","k","l","m",
              "n","o","p","q","r","s","t","u","v","w","x","y","z">>

\* strings.ToLower on ASCII.
ToLower(s) ==
    [ i \in 1..Len(s) |->
        IF s[i] \in UpperLetters
        THEN LowerSeq[CHOOSE k \in 1..26 : UpperSeq[k] = s[i]]
        ELSE s[i] ]

\* getEnvBool(name, defaultValue), value being os.Getenv(name).
getEnvBool(value, defaultValue) ==
    LET val == ToLower(value)
    IN  IF val = <<>> THEN defaultValue
        ELSE val \in { <<"1">>, <<"t","r","u","e">>, <<"y","e","s">>, <<"o","n">> }

DigitSeq == <<"0","1","2","3","4","5","6","7","8","9">>
DigitValue(c) == (CHOOSE k \in 1..10 : DigitSeq[k] = c) - 1

RECURSIVE Decimal(_)
Decimal(ds) ==
    IF ds = <<>> THEN 0
    ELSE 10 * Decimal(SubSeq(ds, 1, Len(ds) - 1)) + DigitValue(ds[Len(ds)])

\* strconv.Atoi: an optional sign, then one or more decimal digits; anything
\* else is an error.  (Texts of the model are far shorter than the 19 digits
\* at which Atoi reports a range error.)
Atoi(s) ==
    LET signed == s # <<>> /\ s[1] \in {"+", "-"}
        ds == IF signed THEN Tail(s) ELSE s
    IN  IF ds = <<>> \/ \E i \in 1..Len(ds) : ds[i] \notin Digits
        THEN [err |-> TRUE, n |-> 0]
        ELSE [err |-> FALSE,
              n |-> IF signed /\ s[1] = "-" THEN 0 - Decimal(ds) ELSE Decimal(ds)]

DefaultMaxSubject == 72
DefaultTypes == <<"f","e","a","t",",","f","i","x",",","d","o","c","s",",","s","t","y","l","e",",","r","e","f","a","c","t","o","r",",","p","e","r","f",",","t","e","s","t",",","b","u","i","l","d",",","c","i",",","c","h","o","r","e",",","r","e","v","e","r","t">>
DefaultExcept == <<"r","e","v","e","r","t">>

\* An environment: the value os.Getenv gives for each name ("" when unset).
EnvNames ==
    { "MAX_SUBJECT", "TYPES", "SCOPES", "REQUIRE_SCOPE", "REQUIRE_SCOPE_EXCEPT_TYPES",
      "ALLOW_CAPITAL_SUBJECT", "SKIP_FOR_BOT", "GITHUB_ACTOR", "GITHUB_EVENT_NAME",
      "GITHUB_BASE_REF" }
Getenv(e, name) == e[name]

\* NewLinter(): the Config it builds from environment e.
NewLinter(e) ==
    LET parsed == Atoi(Getenv(e, "MAX_SUBJECT"))
        maxSubject == IF parsed.err THEN DefaultMaxSubject ELSE parsed.n
    IN  [ AllowedTypes |-> readEnvList(Getenv(e, "TYPES"), DefaultTypes),
          AllowedScopes |-> readEnvList(Getenv(e, "SCOPES"), <<>>),
          RequireScope |-> getEnvBool(Getenv(e, "REQUIRE_SCOPE"), FALSE),
          RequireScopeExcept |->
              readEnvList(Getenv(e, "REQUIRE_SCOPE_EXCEPT_TYPES"), DefaultExcept),
          AllowCapitalSubject |-> getEnvBool(Getenv(e, "ALLOW_CAPITAL_SUBJECT"), FALSE),
          MaxSubjectLength |-> maxSubject ]

-----------------------------------------------------------------------------
(* SpecEnv: readEnvList and NewLinter called on any environment            *)

MaxEnvLen == 4  \* longest list value drawn freely from ListAlphabet
MaxNumLen == 3  \* longest MAX_SUBJECT value drawn freely from NumAlphabet

ListAlphabet == {"a", ",", " "}
NumAlphabet == {"0", "5", "-", "+", "x"}

\* Values of a list variable: free ones, and those of TestReadEnvList.
ListValues ==
    SeqsUpTo(ListAlphabet, MaxEnvLen)
    \cup { <<"x",","," ","y",","," ","z">>, <<" "," ","o","n","e",","," "," ","t","w","o"," "," ">>, <<" "," "," ">>, <<" ",",","\t",","," ">>,
         <<VT,"a",VT,",",NBSP,",","b",NEL>>, <<VT,"\f">> }
ListDefaults == { <<>>, <<"a",",","b",",","c">>, <<"a",",","b">>, DefaultTypes }

UnsetEnv == [ name \in EnvNames |-> <<>> ]

LinterEnvs ==
    { [ UnsetEnv EXCEPT !["MAX_SUBJECT"] = m, !["TYPES"] = t, !["SCOPES"] = sc,
                        !["REQUIRE_SCOPE"] = rs, !["ALLOW_CAPITAL_SUBJECT"] = ac ]
      : m \in SeqsUpTo(NumAlphabet, MaxNumLen) \cup { <<"7","2">>, <<" ","5">> },
        t \in { <<>>, <<",">>, <<"f","e","a","t",","," ","f","i","x">> },
        sc \in { <<>>, <<"a","p","i",",","u","i">> },
        rs \in { <<>>, <<"T","r","u","e">>, <<"n","o">> },
        ac \in { <<>>, <<"O","N">> } }

InitEnv == pc = "env_idle" /\ Blank

ReadEnvListCall ==
    /\ pc = "env_idle"
    /\ \E value \in ListValues, defaultValue \in ListDefaults :
         /\ call' = [op |-> "readEnvList", value |-> value, defaultValue |-> defaultValue]
         /\ result' = readEnvList(value, defaultValue)
    /\ pc' = "env_returned"
    /\ UNCHANGED mainVars

NewLinterCall ==
    /\ pc = "env_idle"
    /\ \E e \in LinterEnvs :
         /\ call' = [op |-> "NewLinter", env |-> e]
         /\ result' = NewLinter(e)
    /\ pc' = "env_returned"
    /\ UNCHANGED mainVars

NextEnv == ReadEnvListCall \/ NewLinterCall

SpecEnv == InitEnv /\ [][NextEnv]_vars

-----------------------------------------------------------------------------
(* The history provider, GetGitCommits (main.go:131-166)                   *)

\* The byte 0, as one character.
NUL == "\\x00"

\* main.go:133: the Go literal "%H\x00%s": its third byte is the byte 0.
format == <<"%", "H", NUL, "%", "s">>

\* main.go:134, 146: fmt.Sprintf("--pretty=format:%s", format)
PrettyArg == <<"-","-","p","r","e","t","t","y","=","f","o","r","m","a","t",":">> \o format

RangeLimit == 200       \* main.go:194

\* strconv.Itoa of a number that is not negative.
RECURSIVE Itoa(_)
Itoa(n) == IF n < 10 THEN <<DigitSeq[n + 1]>>
           ELSE Itoa(n \div 10) \o <<DigitSeq[(n % 10) + 1]>>

\* main.go:134-140: the arguments of the first query.
RangeArgs(rangeSpec, limit) ==
    <<<<"l","o","g">>, <<"-","-","n","o","-","m","e","r","g","e","s">>, PrettyArg>>
    \o (IF rangeSpec # <<>> THEN <<rangeSpec>> ELSE <<>>)
    \o (IF limit > 0 THEN <<<<"-","n">>, Itoa(limit)>> ELSE <<>>)

\* main.go:146: the arguments of the fallback query.
FallbackArgs ==
    <<<<"l","o","g">>, <<"-","-","n","o","-","m","e","r","g","e","s">>, PrettyArg, <<"-","n">>, <<"1">>>>

\* A host h: h.git is the path exec.Command finds for "git" in PATH (empty:
\* none), h.history the commits of the repository that the requested range
\* selects, newest first (<<hash, subject>> pairs).

HasNUL(s) == \E i \in 1..Len(s) : s[i] = NUL

\* Whether the host starts git on argv.  exec.Command records the failed
\* lookup of "git"; os.StartProcess turns each argument into a C string, and
\* syscall.BytePtrFromString refuses one that contains the byte 0 (EINVAL),
\* before any process is made.
Starts(argv, h) == h.git # <<>> /\ \A i \in 1..Len(argv) : ~HasNUL(argv[i])

NotFoundText == "exec: \"git\": executable file not found in $PATH"
InvalidArgText(path) == "fork/exec " \o Str(path) \o ": invalid argument"

\* The text of an *exec.ExitError: git started and exited with a failure.
GitErrText == "exit status 128"

\* What a started git can answer, and the place-holder for a git not run.
NoAnswer == [ ok |-> FALSE, out |-> <<>>, tooLong |-> 0, err |-> "" ]
Failure == [ ok |-> FALSE, out |-> <<>>, tooLong |-> 0, err |-> GitErrText ]

\* main.go:143, 147: cmd.Output() of exec.Command("git", argv...) on host h;
\* r is what git answers if it is started.
Output(argv, h, r) ==
    IF h.git = <<>>
    THEN [ ok |-> FALSE, out |-> <<>>, tooLong |-> 0, err |-> NotFoundText ]
    ELSE IF ~Starts(argv, h)
    THEN [ ok |-> FALSE, out |-> <<>>, tooLong |-> 0, err |-> InvalidArgText(h.git) ]
    ELSE r

\* bufio.ScanLines: the lines of out, each without its line end (\n or \r\n).
RECURSIVE ScanLines(_)
ScanLines(out) ==
    LET n == Span(out, 1, { c \in {At(out, k) : k \in 1..Len(out)} : c # "\n" })
        line == SubSeq(out, 1, n)
        text == IF line # <<>> /\ line[Len(line)] = "\r"
                THEN SubSeq(line, 1, Len(line) - 1) ELSE line
    IN  IF out = <<>> THEN <<>>
        ELSE IF n = Len(out) THEN <<text>>
        ELSE <<text>> \o ScanLines(SubSeq(out, n + 2, Len(out)))

\* strings.SplitN(line, NUL, 2)
SplitN2(line) ==
    LET n == Span(line, 1, { c \in {At(line, k) : k \in 1..Len(line)} : c # NUL })
    IN  IF n = Len(line) THEN <<line>>
        ELSE <<SubSeq(line, 1, n), SubSeq(line, n + 2, Len(line))>>

\* main.go:156-163: the commits one scanned line adds (none or one).
ParseLine(line) ==
    IF TrimSpace(line) = <<>> THEN <<>>
    ELSE LET parts == SplitN2(line)
         IN  IF Len(parts) = 2
             THEN << <<TrimSpace(parts[1]), TrimSpace(parts[2])>> >>
             ELSE <<>>

RECURSIVE ParseLines(_)
ParseLines(lines) ==
    IF lines = <<>> THEN <<>> ELSE ParseLine(Head(lines)) \o ParseLines(Tail(lines))

\* The text of bufio.ErrTooLong.
ScanErrText == "bufio.Scanner: token too long"

\* main.go:153-165: the scan of a query's output.  The scanner stops with
\* ErrTooLong at the first line longer than its 64 KiB buffer; the model's
\* texts are short, so the output carries that line's number as tooLong
\* (0: no such line).  commits is nil until a first commit is appended.
ScanOutput(r) ==
    LET lines == ScanLines(r.out)
        seen == IF r.tooLong > 0 THEN SubSeq(lines, 1, r.tooLong - 1) ELSE lines
        found == ParseLines(seen)
    IN  [ commits |-> IF found = <<>> THEN NilSlice ELSE Slice(found),
          err |-> IF r.tooLong > 0 THEN ScanErrText ELSE NoErr ]

\* main.go:148-150: fmt.Errorf("failed to get git commits: %w", err)
FailedQueries(o) ==
    [ commits |-> NilSlice, err |-> "failed to get git commits: " \o o.err ]

\* The record of one cmd.Output() call: its arguments and how it ended.
Issued(argv, o) ==
    [ args |-> argv, ok |-> o.ok, out |-> o.out, tooLong |-> o.tooLong, err |-> o.err ]

\* main.go:145
WarningLine(o) ==
    "::warning title=commitlint::Could not read git log (" \o o.err
    \o "). Falling back to HEAD"

\* Variant: no fallback query after a failed first query.
GetGitCommitsNoFallback(rangeSpec, limit, h, r1, r2) ==
    LET o1 == Output(RangeArgs(rangeSpec, limit), h, r1)
    IN  [ ret |-> IF o1.ok THEN ScanOutput(o1) ELSE FailedQueries(o1),
          queries |-> <<Issued(RangeArgs(rangeSpec, limit), o1)>>,
          warned |-> <<>> ]

\* GetGitCommits(rangeSpec, limit) on host h, r1 and r2 being what git
\* answers to the first query and to the fallback query if it is started.
GetGitCommits(rangeSpec, limit, h, r1, r2) ==
    LET o1 == Output(RangeArgs(rangeSpec, limit), h, r1)
        o2 == Output(FallbackArgs, h, r2)
        q1 == Issued(RangeArgs(rangeSpec, limit), o1)
        q2 == Issued(FallbackArgs, o2)
    IN  IF o1.ok
        THEN [ ret |-> ScanOutput(o1), queries |-> <<q1>>, warned |-> <<>> ]
        ELSE IF o2.ok
        THEN [ ret |-> ScanOutput(o2), queries |-> <<q1, q2>>,
               warned |-> <<WarningLine(o1)>> ]
        ELSE [ ret |-> FailedQueries(o2), queries |-> <<q1, q2>>,
               warned |-> <<WarningLine(o1)>> ]

\* main.go:168-175
inferRangeFromGithubEnv(e) ==
    LET eventName == Getenv(e, "GITHUB_EVENT_NAME")
        baseRef == Getenv(e, "GITHUB_BASE_REF")
    IN  IF HasPrefix(eventName, <<"p","u","l","l","_","r","e","q","u","e","s","t">>) /\ baseRef # <<>>
        THEN <<"o","r","i","g","i","n","/">> \o baseRef \o <<".",".","H","E","A","D">>
        ELSE <<>>

-----------------------------------------------------------------------------
(* Inputs of main: environments, arguments and hosts                       *)

MaxCommits == 2     \* most commits in the history the range selects

Sha == <<"9","d","7","b","7","c","9","3","2","5","7","5","3","4","8","d","7","a","2","7","6","8","f","c","7","8","1","9","6","0","1","2","8","d","9","b","1","6","f","2">>
OtherSha == <<"1","5","a","0","0","c","6","e","0","f","3","b","1","c","2","d","4","a","5","9","6","8","7","7","8","6","9","5","a","4","b","3","c","2","d","1","e","0","f","f">>

\* Commits a repository can hold.
RepoCommits ==
    { <<Sha, <<"f","e","a","t",":"," ","a","d","d"," ","x">>>>,
      <<Sha, <<"f","i","x","(","a","p","i",")",":"," ","F","i","x"," ","i","t",".">>>>,
      <<OtherSha, <<"c","h","o","r","e",":"," ">>>>,
      <<OtherSha, <<"w","i","p",":"," ","x">>>>,
      <<Sha, <<"M","e","r","g","e"," ","b","r","a","n","c","h"," ","'","d","e","v","'">>>>,
      <<OtherSha, <<"d","o","c","s",":"," ",VT,"\t">>>> }

GitPaths ==
    { <<>>, <<"/","u","s","r","/","b","i","n","/","g","i","t">>, <<"/","u","s","r","/","l","o","c","a","l","/","b","i","n","/","g","i","t">> }

Hosts == [ git : GitPaths, history : SeqsUpTo(RepoCommits, MaxCommits) ]

\* What git prints for a list of commits in the format "%H", byte 0, "%s":
\* one line per commit, a line feed between two lines.
RECURSIVE GitPrints(_)
GitPrints(cs) ==
    IF cs = <<>> THEN <<>>
    ELSE IF Len(cs) = 1 THEN cs[1][1] \o <<NUL>> \o cs[1][2]
    ELSE cs[1][1] \o <<NUL>> \o cs[1][2] \o <<"\n">> \o GitPrints(Tail(cs))

\* What a started git can answer when it has the commits cs to print: a
\* failure, or the lines, with the number of the first over-long one (0: none).
Answers(cs) ==
    {Failure} \cup
    { [ ok |-> TRUE, out |-> GitPrints(cs), tooLong |-> k, err |-> "" ] : k \in 0..Len(cs) }

\* The answers to the range query and to the fallback query (-n 1) on host h.
RangeAnswers(h) == Answers(h.history)
FallbackAnswers(h) == UNION { Answers(<<c>>) : c \in RepoCommits }

MainEnvs ==
    { UnsetEnv,
      [ UnsetEnv EXCEPT !["GITHUB_ACTOR"] = <<"r","e","l","e","a","s","e","-","p","l","e","a","s","e","[","b","o","t","]">> ],
      [ UnsetEnv EXCEPT !["GITHUB_ACTOR"] = <<"r","e","l","e","a","s","e","-","p","l","e","a","s","e","[","b","o","t","]">>, !["SKIP_FOR_BOT"] = <<"f","a","l","s","e">> ],
      [ UnsetEnv EXCEPT !["MAX_SUBJECT"] = <<"0">>, !["TYPES"] = <<",">> ],
      [ UnsetEnv EXCEPT !["ALLOW_CAPITAL_SUBJECT"] = <<"1">>,
                        !["REQUIRE_SCOPE"] = <<"t","r","u","e">>, !["SCOPES"] = <<"a","p","i",",","u","i">> ],
      [ UnsetEnv EXCEPT !["GITHUB_EVENT_NAME"] = <<"p","u","l","l","_","r","e","q","u","e","s","t","_","t","a","r","g","e","t">>,
                        !["GITHUB_BASE_REF"] = <<"m","a","i","n">> ] }

MainArgs ==
    { << <<"c","o","m","m","i","t","-","l","i","n","t">> >>,
      << <<"c","o","m","m","i","t","-","l","i","n","t">>, <<"-","-","r","a","n","g","e">>, <<"H","E","A","D","~","2",".",".","H","E","A","D">> >> }

-----------------------------------------------------------------------------
(* main (main.go:177-229)                                                  *)

\* main.go:187-192; osArgs[1] is the program's name (os.Args[0]).
RangeSpecOf(osArgs, e) ==
    IF Len(osArgs) > 2 /\ osArgs[2] = <<"-","-","r","a","n","g","e">>
    THEN osArgs[3]
    ELSE inferRangeFromGithubEnv(e)

\* main.go:211-214
ShortSha(sha) == IF ByteLen(sha) > 7 THEN BytePrefix(sha, 7) ELSE sha

\* main.go:216
ErrorLine(sha, msg, subj) ==
    "::error title=commit " \o Str(ShortSha(sha)) \o "::" \o msg \o " | '" \o Str(subj) \o "'"

RECURSIVE ErrorLines(_, _, _)
ErrorLines(sha, msgs, subj) ==
    IF msgs = <<>> THEN <<>>
    ELSE <<ErrorLine(sha, Head(msgs), subj)>> \o ErrorLines(sha, Tail(msgs), subj)

SummaryLine(n, m) ==
    "Found " \o ToString(n) \o " errors across " \o ToString(m) \o " commit(s)."
SkipNotice == "::notice title=commitlint::Skipping for release-please[bot]."
NoCommitsWarning == "::warning title=commitlint::No commits found to lint."
SuccessLine == "All commit subjects comply with rules."
\* main.go:196
FailureLine(err) == "::error title=commitlint::Failed to get git commits: " \o err

\* main.go:210
AddErrors(count, errs) == count + Len(errs.elems)

\* main.go:178-192: the bot check, the linter and the range.
MainStart ==
    /\ pc = "main_start"
    /\ IF /\ getEnvBool(Getenv(env, "SKIP_FOR_BOT"), TRUE)
          /\ Getenv(env, "GITHUB_ACTOR") = <<"r","e","l","e","a","s","e","-","p","l","e","a","s","e","[","b","o","t","]">>
       THEN /\ stdout' = Append(stdout, SkipNotice)
            /\ exitCode' = 0
            /\ pc' = "main_done"
            /\ UNCHANGED <<linter, call>>
       ELSE /\ linter' = NewLinter(env)
            /\ call' = [op |-> "GetGitCommits", rangeSpec |-> RangeSpecOf(args, env),
                        limit |-> RangeLimit]
            /\ pc' = "main_get"
            /\ UNCHANGED <<stdout, exitCode>>
    /\ UNCHANGED <<result, env, args, host, queries, gitErr, commits, idx, linted,
                   errorCount, stderr>>

\* main.go:194: the call of GetGitCommits.  What git answers is an input of
\* the action for each query that starts git, and for no other.
GetGitCommitsCall ==
    /\ pc = "main_get"
    /\ \E r1 \in IF Starts(RangeArgs(call.rangeSpec, call.limit), host)
                 THEN RangeAnswers(host) ELSE {NoAnswer} :
         \E r2 \in IF ~r1.ok /\ Starts(FallbackArgs, host)
                   THEN FallbackAnswers(host) ELSE {NoAnswer} :
            LET g == GetGitCommits(call.rangeSpec, call.limit, host, r1, r2)
            IN  /\ queries' = queries \o g.queries
                /\ stderr' = stderr \o g.warned
                /\ commits' = g.ret.commits
                /\ gitErr' = g.ret.err
    /\ pc' = "main_got"
    /\ UNCHANGED <<call, result, env, args, host, linter, idx, linted, errorCount,
                   stdout, exitCode>>

\* main.go:195-205: the error and the empty list end the run.
MainCheck ==
    /\ pc = "main_got"
    /\ IF gitErr # NoErr
       THEN /\ stderr' = Append(stderr, FailureLine(gitErr))
            /\ exitCode' = 1
            /\ pc' = "main_done"
            /\ UNCHANGED <<stdout, errorCount>>
       ELSE IF Len(commits.elems) = 0
       THEN /\ stdout' = Append(stdout, NoCommitsWarning)
            /\ exitCode' = 0
            /\ pc' = "main_done"
            /\ UNCHANGED <<stderr, errorCount>>
       ELSE /\ errorCount' = 0
            /\ pc' = "main_loop"
            /\ UNCHANGED <<stdout, stderr, exitCode>>
    /\ UNCHANGED <<call, result, env, args, host, linter, queries, gitErr, commits,
                   idx, linted>>

\* main.go:206-219: one turn of the loop.
LintNext ==
    /\ pc = "main_loop"
    /\ idx < Len(commits.elems)
    /\ LET sha == commits.elems[idx + 1][1]
           subj == commits.elems[idx + 1][2]
           errs == LintSubject(linter, subj)
       IN  /\ call' = [op |-> "LintSubject", cfg |-> linter, subject |-> subj]
           /\ result' = errs
           /\ linted' = Append(linted, subj)
           /\ IF Len(errs.elems) > 0
              THEN /\ errorCount' = AddErrors(errorCount, errs)
                   /\ stdout' = stdout \o ErrorLines(sha, errs.elems, subj)
              ELSE UNCHANGED <<errorCount, stdout>>
    /\ idx' = idx + 1
    /\ UNCHANGED <<pc, env, args, host, linter, queries, gitErr, commits, stderr,
                   exitCode>>

\* main.go:221-228: the summary and the exit code.
MainFinish ==
    /\ pc = "main_loop"
    /\ idx = Len(commits.elems)
    /\ IF errorCount > 0
       THEN /\ stdout' = stdout \o << "::group::Commit lint summary",
                                      SummaryLine(errorCount, Len(commits.elems)),
                                      "::endgroup::" >>
            /\ exitCode' = 1
       ELSE /\ stdout' = Append(stdout, SuccessLine)
            /\ exitCode' = 0
    /\ pc' = "main_done"
    /\ UNCHANGED <<call, result, env, args, host, linter, queries, gitErr, commits,
                   idx, linted, errorCount, stderr>>

InitMain ==
    /\ pc = "main_start"
    /\ env \in MainEnvs
    /\ args \in MainArgs
    /\ host \in Hosts
    /\ call = NoCall
    /\ result = NilSlice
    /\ linter = NoConfig
    /\ queries = <<>>
    /\ gitErr = NoErr
    /\ commits = NilSlice
    /\ idx = 0
    /\ linted = <<>>
    /\ errorCount = 0
    /\ stdout = <<>>
    /\ stderr = <<>>
    /\ exitCode = -1

\* Every step of main.
NextMainAll == MainStart \/ GetGitCommitsCall \/ MainCheck \/ LintNext \/ MainFinish

SpecMainAll == InitMain /\ [][NextMainAll]_vars

\* No run of main reaches its loop: both queries carry the byte 0 of format
\* in an argument, so neither starts git, and GetGitCommits returns an error
\* on every host.
LoopNeverReached ==
    /\ pc # "main_loop"
    /\ \A i \in 1..Len(queries) : ~queries[i].ok
    /\ pc \in {"main_got", "main_done"} /\ queries # <<>> => gitErr # NoErr

\* The steps main can take (LoopNeverReached holds of SpecMainAll).
NextMain == MainStart \/ GetGitCommitsCall \/ MainCheck

SpecMain == InitMain /\ [][NextMain]_vars

-----------------------------------------------------------------------------
(* The grammar of spec 4.1, stated by where a subject can be cut:          *)
(*   subject := type ("(" scope ")")? "!"? ": " description                *)

\* a: the type is s[1..a]
TypeEnds(s) == { a \in 1..Len(s) : \A i \in 1..a : s[i] \in LowerLetters }

\* b: the optional "(scope)" is s[a+1..b]
ScopeEnds(s, a) ==
    {a} \cup { b \in (a + 3)..Len(s) :
                 /\ s[a + 1] = "(" /\ s[b] = ")"
                 /\ s[a + 2] \in ScopeFirst
                 /\ \A i \in (a + 3)..(b - 1) : s[i] \in ScopeRest }

\* c: the optional "!" is s[b+1..c]
BangEnds(s, b) == {b} \cup { c \in {b + 1} : c <= Len(s) /\ s[c] = "!" }

ColonAfter(s, c) ==
    /\ c + 2 <= Len(s)
    /\ s[c + 1] = ":" /\ s[c + 2] = " "
    /\ \A i \in (c + 3)..Len(s) : s[i] # "\n"

\* Every way to read s by the grammar (none, or exactly one).
Parts(s) ==
    UNION { UNION { { [ ctype |-> SubSeq(s, 1, a),
                        scope |-> IF b > a THEN SubSeq(s, a + 2, b - 1) ELSE <<>>,
                        rest |-> SubSeq(s, c + 3, Len(s)) ]
                      : c \in { x \in BangEnds(s, b) : ColonAfter(s, x) } }
                    : b \in ScopeEnds(s, a) }
            : a \in TypeEnds(s) }

Matches(s) == Parts(s) # {}
PartsOf(s) == CHOOSE p \in Parts(s) : TRUE

Reported(msg) == \E i \in 1..Len(result.elems) : result.elems[i] = msg
ReportedTooLong(subject) ==
    \E i \in 1..Len(result.elems) : \E n \in 0..ByteLen(subject) :
        result.elems[i] = TooLongMsg(n, call.cfg.MaxSubjectLength)

-----------------------------------------------------------------------------
(* Claims about the configuration loader, under SpecEnv                    *)

EnvReturned(op) == pc = "env_returned" /\ call.op = op

\* The tokens of a comma-separated text: its maximal comma-free pieces,
\* trimmed, the empty ones dropped.
IsToken(t) ==
    /\ t # <<>>
    /\ t[1] \notin SpaceChars /\ t[Len(t)] \notin SpaceChars
    /\ \A i \in 1..Len(t) : t[i] # ","

\* C8: readEnvList returns the nil list or a non-empty list of trimmed,
\* non-empty tokens, never an empty non-nil list; an unset or all-whitespace
\* value yields the parsed default.
C8_NilOrNonEmpty ==
    EnvReturned("readEnvList") =>
        /\ result.isNil \/ result.elems # <<>>
        /\ \A i \in 1..Len(result.elems) : IsToken(result.elems[i])
        /\ (\A i \in 1..Len(call.value) : call.value[i] \in SpaceChars)
              => result = readEnvList(<<>>, call.defaultValue)

\* A text Atoi accepts: an optional sign, then digits only, at least one.
IsNumeric(s) ==
    \E k \in {0, 1} :
        /\ Len(s) > k
        /\ k = 1 => s[1] \in {"+", "-"}
        /\ \A i \in (k + 1)..Len(s) : s[i] \in Digits

\* C9: NewLinter resolves MaxSubjectLength to a positive integer: 72 when
\* MAX_SUBJECT is unset or not numeric, more than zero in every other case.
C9_MaxSubjectPositive ==
    EnvReturned("NewLinter") =>
        /\ result.MaxSubjectLength > 0
        /\ ~IsNumeric(call.env["MAX_SUBJECT"]) => result.MaxSubjectLength = 72

-----------------------------------------------------------------------------
(* Claims about LintSubject, under SpecLint                                *)

\* C1: a subject of a well-known merge-commit shape yields no violation at
\* all, whatever the configuration.
C1_MergeSubjectsPass ==
    (Returned /\ call.subject \in MergeSubjects) => result.elems = <<>>

\* C2: a subject that does not match the grammar yields exactly one
\* violation, the fixed format message, whatever the configuration.
C2_NoMatchOnlyFormat ==
    (Returned /\ ~Matches(call.subject)) => result = Slice(<<FormatMsg>>)

\* C2 witness: a subject outside the grammar, under a configuration whose
\* type, scope, length, period and capital checks would all have fired.
C2_Witness ==
    /\ Returned
    /\ call.subject = <<"A", ":", " ", "X", ".">>
    /\ call.cfg.AllowedTypes = Slice(<<>>)
    /\ call.cfg.RequireScope /\ call.cfg.RequireScopeExcept.isNil
    /\ call.cfg.MaxSubjectLength = -1 /\ ~call.cfg.AllowCapitalSubject
    /\ result = Slice(<<FormatMsg>>)

\* What checks 4-7 report when they read the description d.
Checks4to7On(d) ==
    /\ Reported(EmptyMsg) <=> (TrimSpace(d) = <<>>)
    /\ ReportedTooLong(call.subject) <=> (ByteLen(d) > call.cfg.MaxSubjectLength)
    /\ ReportedTooLong(call.subject)
         => Reported(TooLongMsg(ByteLen(d), call.cfg.MaxSubjectLength))
    /\ Reported(PeriodMsg) <=> (Len(d) > 0 /\ d[Len(d)] = ".")
    /\ Reported(CapitalMsg) <=>
         (~call.cfg.AllowCapitalSubject /\ Len(d) > 0 /\ d[1] \in UpperLetters)

\* C3 as stated: checks 5, 6 and 7 read the untrimmed remainder after ": "
\* (its length, its last character, its first character); only check 4
\* reads the trimmed copy.
C3_RawRemainder ==
    (Returned /\ Matches(call.subject)) => Checks4to7On(PartsOf(call.subject).rest)

\* C3 amended: checks 4-7 all read the trimmed remainder: the length compared
\* and printed, the last character and the first character are those of the
\* remainder with its leading and trailing whitespace removed.
C3_TrimmedRemainder ==
    (Returned /\ Matches(call.subject))
        => Checks4to7On(TrimSpace(PartsOf(call.subject).rest))

\* C3 witness: leading whitespace before an uppercase letter and trailing
\* whitespace after a period, and both checks 7 and 6 fire; the length
\* printed is that of the trimmed text.
C3_Witness ==
    /\ Returned
    /\ call.subject = <<"f","e","a","t","(","a","p","i",")",":"," "," ","F","i","x"," ","i","t","."," ">>
    /\ call.cfg.MaxSubjectLength = 2
    /\ Reported(PeriodMsg) /\ Reported(CapitalMsg)
    /\ Reported("subject too long (7 > 2)")

\* C4: an allow-list with no entries, nil or empty, restricts nothing: the
\* type (scope) violation is reported exactly when the list has entries and
\* does not contain the parsed type (scope, when one is present).
C4_EmptyListNoRestriction ==
    (Returned /\ Matches(call.subject)) =>
        LET p == PartsOf(call.subject)
            cfg == call.cfg
        IN  /\ Reported(TypeMsg(p.ctype, cfg.AllowedTypes)) <=>
                 (Len(cfg.AllowedTypes.elems) > 0
                  /\ \A i \in 1..Len(cfg.AllowedTypes.elems) :
                        cfg.AllowedTypes.elems[i] # p.ctype)
            /\ Reported(ScopeMsg(p.scope, cfg.AllowedScopes)) <=>
                 (p.scope # <<>> /\ Len(cfg.AllowedScopes.elems) > 0
                  /\ \A i \in 1..Len(cfg.AllowedScopes.elems) :
                        cfg.AllowedScopes.elems[i] # p.scope)

\* The rule table's row of a message, for the parts p of the subject under
\* configuration cfg (0: none of the table's messages).
Row(p, cfg, msg) ==
    IF msg = ScopeMissingMsg THEN 2
    ELSE IF msg = EmptyMsg THEN 4
    ELSE IF msg = PeriodMsg THEN 6
    ELSE IF msg = CapitalMsg THEN 7
    ELSE IF msg = TypeMsg(p.ctype, cfg.AllowedTypes) THEN 1
    ELSE IF msg = ScopeMsg(p.scope, cfg.AllowedScopes) THEN 3
    ELSE IF msg = TooLongMsg(ByteLen(TrimSpace(p.rest)), cfg.MaxSubjectLength) THEN 5
    ELSE 0

\* Whether row k's check fails for parts p under cfg, on its own.
Fails(p, cfg, k) ==
    LET d == TrimSpace(p.rest)
        In(list, x) == \E i \in 1..Len(list.elems) : list.elems[i] = x
    IN  CASE k = 1 -> ~cfg.AllowedTypes.isNil /\ ~In(cfg.AllowedTypes, p.ctype)
          [] k = 2 -> cfg.RequireScope /\ p.scope = <<>>
                      /\ ~In(cfg.RequireScopeExcept, p.ctype)
          [] k = 3 -> p.scope # <<>> /\ ~cfg.AllowedScopes.isNil
                      /\ ~In(cfg.AllowedScopes, p.scope)
          [] k = 4 -> d = <<>>
          [] k = 5 -> ByteLen(d) > cfg.MaxSubjectLength
          [] k = 6 -> Len(d) > 0 /\ d[Len(d)] = "."
          [] k = 7 -> ~cfg.AllowCapitalSubject /\ Len(d) > 0 /\ d[1] \in UpperLetters

\* C5: for a subject that matches the grammar, the violations come in the
\* rule table's order, each at most once; every check that fails is
\* reported whatever the other checks do; and with no failing check the
\* result is the nil slice.
C5_OrderedAndComplete ==
    (Returned /\ Matches(call.subject)) =>
        LET p == PartsOf(call.subject)
            n == Len(result.elems)
            rows == [i \in 1..n |-> Row(p, call.cfg, result.elems[i])]
        IN  /\ \A i \in 1..n : rows[i] \in 1..7
            /\ \A i \in 1..(n - 1) : rows[i] < rows[i + 1]
            /\ \A k \in 1..7 : Fails(p, call.cfg, k) <=> \E i \in 1..n : rows[i] = k
            /\ result.isNil <=> (n = 0)

\* C5 witness: five checks fail at once (type, scope, length, period,
\* capital) and all five are reported.
C5_Witness ==
    /\ Returned
    /\ Matches(call.subject)
    /\ Len(result.elems) = 5
    /\ Reported(PeriodMsg) /\ Reported(CapitalMsg) /\ Reported(ScopeMissingMsg)

-----------------------------------------------------------------------------
(* Claims about main and GetGitCommits, under SpecMain                     *)

AfterGet == pc \in {"main_got", "main_loop", "main_done"} /\ queries # <<>>
MainDone == pc = "main_done" /\ queries # <<>>
SubjectsOf(cs) == [ i \in 1..Len(cs) |-> cs[i][2] ]

RECURSIVE SumSeq(_)
SumSeq(ns) == IF ns = <<>> THEN 0 ELSE Head(ns) + SumSeq(Tail(ns))

\* The list the history provider has to return on host h: the commits of
\* the history, each as GetGitCommits reads it from git's line for it.
Provided(h) == ParseLines(ScanLines(GitPrints(h.history)))

\* C6: on a host that has git, main lints the commits the history provider
\* has for the range, in order, one call each; it exits nonzero exactly when
\* some commit has a violation; the summary prints the sum of the per-commit
\* violation counts and the number of commits; a run with no commits exits
\* zero and reports nothing.
C6_ExitCodeAndSummary ==
    (MainDone /\ host.git # <<>>) =>
        LET cs == Provided(host)
            counts == [ i \in 1..Len(cs) |-> Len(LintSubject(linter, cs[i][2]).elems) ]
            total == SumSeq(counts)
        IN  /\ linted = SubjectsOf(cs)
            /\ (exitCode # 0) <=> (\E i \in 1..Len(cs) : counts[i] > 0)
            /\ total > 0 =>
                  /\ Len(stdout) = total + 3
                  /\ stdout[Len(stdout) - 1] = SummaryLine(total, Len(cs))
            /\ (total = 0 /\ cs # <<>>) => stdout = <<SuccessLine>>
            /\ cs = <<>> => (exitCode = 0 /\ stdout = <<NoCommitsWarning>>)

\* What C7 says of the queries: at most two, the fallback issued exactly
\* when the first query fails, none before GetGitCommits runs or after it.
QueriesAsClaimed ==
    /\ Len(queries) <= 2
    /\ pc \in {"main_start", "main_get"} => queries = <<>>
    /\ AfterGet =>
          /\ queries[1].args = RangeArgs(call.rangeSpec, RangeLimit)
          /\ queries[1].ok => Len(queries) = 1
          /\ ~queries[1].ok => (Len(queries) = 2 /\ queries[2].args = FallbackArgs)


\* A commit whose description after ": " is empty or blank.
BlankDescription(subject) ==
    Matches(subject) /\ TrimSpace(PartsOf(subject).rest) = <<>>

\* C10: no commit linted through main is reported with "subject must not be
\* empty": the subject arrives trimmed, so a commit of the history whose
\* description after ": " is empty or blank arrives ending in the colon,
\* fails the grammar and is reported with the format message.
C10_NoEmptySubjectViaMain ==
    /\ \A i \in 1..Len(linted) :
          linted[i] # <<>> =>
             (linted[i][1] \notin SpaceChars /\ linted[i][Len(linted[i])] \notin SpaceChars)
    /\ \A k \in 1..Len(stdout) : \A i \in 1..Len(host.history) :
          stdout[k] # ErrorLine(host.history[i][1], EmptyMsg, TrimSpace(host.history[i][2]))
    /\ (MainDone /\ host.git # <<>>) =>
          \A i \in 1..Len(host.history) :
             BlankDescription(host.history[i][2]) =>
                \E k \in 1..Len(stdout) :
                   stdout[k] = ErrorLine(host.history[i][1], FormatMsg,
                                         TrimSpace(host.history[i][2]))

====
